---- MODULE Spec2Model ----
(***************************************************************************)
(* State-machine model of the KYC extraction-evaluation harness:           *)
(*   KYCDocumentProcessor.process_document   (src/main.py)                 *)
(*   ObjectComparer, run_extraction_performance_test, simulate_extraction  *)
(*                                            (src/run_evaluation.py)      *)
(*                                                                         *)
(* Python strings are sequences of one-character strings, Python values    *)
(* are tagged records, Python floats are exact reduced fractions.          *)
(***************************************************************************)
EXTENDS Integers, Sequences, FiniteSets, TLC

VARIABLES
    processor,            \* the KYCDocumentProcessor object's fields
    pc,                   \* position of the process_document call
    attempt,              \* loop variable of `for attempt in range(max_attempts)`
    doc_type,             \* the doc_type argument of the call in progress
    model_calls,          \* ChatCompletion.create calls made by the call in progress
    outcomes,             \* what each of those model calls produced, in order
    result,               \* value returned by process_document
    exception,            \* exception raised by process_document
    upload,               \* the uploaded_image argument of the call in progress
    image_url,            \* the image_url of the latest model call of that call
    expected_output,      \* ObjectComparer.expected_output
    performance_results,  \* ObjectComparer.performance_results
    tracked,              \* history: the arguments of the track_performance calls
    rpc,                  \* position of run_extraction_performance_test
    evaluation_iterations,\* its evaluation_iterations argument
    uploaded_file,        \* its uploaded_file argument
    i,                    \* its loop variable
    extractions,          \* simulate_extraction calls made by the run
    performance_summary,  \* its performance_summary local
    extracted_output,     \* argument of a stand-alone compare_objects call
    match_percentage,     \* value returned by that call
    earlier_iterations,   \* history: iterations tracked by the runs that have ended
    rot_image,            \* image argument of a stand-alone rotate_image call
    rot_angle,            \* its rotation argument
    rot_result,           \* the image it returned
    rot_warning,          \* whether it displayed st.warning
    page,                 \* the page script that ran last, and its step
    size_error,           \* whether that script run displayed the size error
    first_url             \* history: the image_url of the page's first step

vars == <<processor, pc, attempt, doc_type, model_calls, outcomes, result,
          exception, upload, image_url, expected_output,
          performance_results, tracked, rpc,
          evaluation_iterations, uploaded_file, i, extractions,
          performance_summary, extracted_output, match_percentage,
          earlier_iterations, rot_image, rot_angle, rot_result, rot_warning,
          page, size_error, first_url>>

procVars == <<processor, pc, attempt, doc_type, model_calls, outcomes, result,
              exception, upload, image_url>>
trackVars == <<expected_output, performance_results, tracked>>
runVars == <<rpc, evaluation_iterations, uploaded_file, i, extractions,
             performance_summary>>
cmpVars == <<extracted_output, match_percentage>>
rotVars == <<rot_image, rot_angle, rot_result, rot_warning>>
pageVars == <<page, size_error, first_url>>

----------------------------------------------------------------------------
(* Bounds of the model *)

\* largest evaluation_iterations argument of a run (Spec)
MaxIter == 2
\* track_performance calls on one ObjectComparer (SpecTrack)
MaxTrack == 5
\* the most iterations that the runs before the current one have tracked
MaxEarlier == 2

----------------------------------------------------------------------------
(* Python strings *)

s_passport == <<"p","a","s","s","p","o","r","t">>
s_driver_licence == <<"d","r","i","v","e","r","_","l","i","c","e","n","c","e">>
s_passport_or_driver_licence == s_passport \o <<" ","o","r"," ">> \o s_driver_licence
s_id_card == <<"i","d","_","c","a","r","d">>
s_BENJAMIN == <<"B","E","N","J","A","M","I","N">>
s_benjamin == <<"b","e","n","j","a","m","i","n">>
s_FRANKLIN == <<"F","R","A","N","K","L","I","N">>
s_WRONG == <<"W","R","O","N","G">>
s_Doe == <<"D","o","e">>
s_DOE == <<"D","O","E">>
s_John == <<"J","o","h","n">>
s_x == <<"x">>
s_1 == <<"1">>
s_None == <<"N","o","n","e">>

LowerCase == <<"a","b","c","d","e","f","g","h","i","j","k","l","m",
               "n","o","p","q","r","s","t","u","v","w","x","y","z">>
UpperCase == <<"A","B","C","D","E","F","G","H","I","J","K","L","M",
               "N","O","P","Q","R","S","T","U","V","W","X","Y","Z">>

\* str.upper() on one character
UpperChar(c) ==
    IF \E k \in DOMAIN LowerCase : LowerCase[k] = c
    THEN UpperCase[CHOOSE k \in DOMAIN LowerCase : LowerCase[k] = c]
    ELSE c

\* str.upper()
upper(s) == [k \in DOMAIN s |-> UpperChar(s[k])]

\* `a in b` for two Python strings: a is a contiguous substring of b
StrContains(a, b) ==
    \E off \in 0..(Len(b) - Len(a)) :
        \A k \in 1..Len(a) : b[off + k] = a[k]

----------------------------------------------------------------------------
(* Python values: t is the type tag, s the characters of a str, n the     *)
(* value of an int, d the key -> value function of a dict.                 *)

PyStr(s) == [t |-> "str", s |-> s, n |-> 0, d |-> <<>>]
PyInt(n) == [t |-> "int", s |-> <<>>, n |-> n, d |-> <<>>]
PyDict(d) == [t |-> "dict", s |-> <<>>, n |-> 0, d |-> d]
PyList == [t |-> "list", s |-> <<>>, n |-> 0, d |-> <<>>]
PyNone == [t |-> "none", s |-> <<>>, n |-> 0, d |-> <<>>]

DigitChars == <<"0","1","2","3","4","5","6","7","8","9">>

RECURSIVE Digits(_)
\* decimal digits of a natural number
Digits(n) ==
    IF n < 10 THEN <<DigitChars[n + 1]>>
    ELSE Digits(n \div 10) \o <<DigitChars[(n % 10) + 1]>>

\* str(v) for the values a field can hold
str(v) ==
    CASE v.t = "str" -> v.s
      [] v.t = "int" -> Digits(v.n)
      [] v.t = "none" -> s_None
      [] v.t = "list" -> <<"[","]">>

----------------------------------------------------------------------------
(* Python floats as exact reduced fractions num/den, den > 0 *)

RECURSIVE GCD(_, _)
GCD(a, b) == IF b = 0 THEN a ELSE GCD(b, a % b)

Frac(n, d) == LET g == GCD(n, d) IN [num |-> n \div g, den |-> d \div g]
FracInt(n) == Frac(n, 1)
FracMul(a, b) == Frac(a.num * b.num, a.den * b.den)
FracAdd(a, b) == Frac(a.num * b.den + b.num * a.den, a.den * b.den)
FracLess(a, b) == a.num * b.den < b.num * a.den
FracEq(a, b) == a.num * b.den = b.num * a.den

RECURSIVE FracSum(_)
FracSum(seq) ==
    IF seq = <<>> THEN FracInt(0) ELSE FracAdd(Head(seq), FracSum(Tail(seq)))

----------------------------------------------------------------------------
(* ObjectComparer (src/run_evaluation.py) *)

\* ObjectComparer.__init__: the fresh performance_results dictionary
NewPerformanceResults ==
    [total_iterations |-> 0,
     exact_matches |-> 0,
     partial_matches |-> <<>>,
     match_percentages |-> <<>>]

\* KeyMatches comparing the string forms without upper()
KeyMatches_case_sensitive(expected, extracted, key) ==
    /\ key \in DOMAIN extracted.d
    /\ str(extracted.d[key]) = str(expected.d[key])

\* the condition of the generator expression in compare_objects
KeyMatches(expected, extracted, key) ==
    /\ key \in DOMAIN extracted.d
    /\ upper(str(extracted.d[key])) = upper(str(expected.d[key]))

RECURSIVE SumMatches(_, _, _)
\* sum(1 for key, expected_val in expected.items() if ...)
SumMatches(expected, extracted, keys) ==
    IF keys = {} THEN 0
    ELSE LET key == CHOOSE k \in keys : TRUE
         IN (IF KeyMatches(expected, extracted, key) THEN 1 ELSE 0)
            + SumMatches(expected, extracted, keys \ {key})

\* compare_objects scoring an empty expected mapping as a full match
compare_objects_empty_is_full(expected, extracted) ==
    IF extracted.t # "dict" THEN FracInt(0)
    ELSE LET total_keys == Cardinality(DOMAIN expected.d)
             matches == SumMatches(expected, extracted, DOMAIN expected.d)
         IN IF total_keys > 0
            THEN FracMul(Frac(matches, total_keys), FracInt(100))
            ELSE FracInt(100)

\* ObjectComparer.compare_objects
compare_objects(expected, extracted) ==
    IF extracted.t # "dict" THEN FracInt(0)
    ELSE LET total_keys == Cardinality(DOMAIN expected.d)
             matches == SumMatches(expected, extracted, DOMAIN expected.d)
         IN IF total_keys > 0
            THEN FracMul(Frac(matches, total_keys), FracInt(100))
            ELSE FracInt(0)

\* track_performance recording a percentage only when it is not 0
track_performance_nonzero_only(pr, expected, extracted) ==
    LET percentage == compare_objects(expected, extracted)
    IN [total_iterations |-> pr.total_iterations + 1,
        match_percentages |->
            IF FracEq(percentage, FracInt(0))
            THEN pr.match_percentages ELSE Append(pr.match_percentages, percentage),
        exact_matches |->
            IF FracEq(percentage, FracInt(100))
            THEN pr.exact_matches + 1 ELSE pr.exact_matches,
        partial_matches |->
            IF FracLess(FracInt(0), percentage) /\ FracLess(percentage, FracInt(100))
            THEN Append(pr.partial_matches, extracted) ELSE pr.partial_matches]

\* track_performance keeping 0% iterations as partial matches (0 <= percentage)
track_performance_partial_inclusive(pr, expected, extracted) ==
    LET percentage == compare_objects(expected, extracted)
    IN [total_iterations |-> pr.total_iterations + 1,
        match_percentages |-> Append(pr.match_percentages, percentage),
        exact_matches |->
            IF FracEq(percentage, FracInt(100))
            THEN pr.exact_matches + 1 ELSE pr.exact_matches,
        partial_matches |->
            IF FracLess(percentage, FracInt(100))
            THEN Append(pr.partial_matches, extracted) ELSE pr.partial_matches]

\* track_performance listing exact matches among the partial ones (0 < percentage <= 100)
track_performance_exact_also_partial(pr, expected, extracted) ==
    LET percentage == compare_objects(expected, extracted)
    IN [total_iterations |-> pr.total_iterations + 1,
        match_percentages |-> Append(pr.match_percentages, percentage),
        exact_matches |->
            IF FracEq(percentage, FracInt(100))
            THEN pr.exact_matches + 1 ELSE pr.exact_matches,
        partial_matches |->
            IF FracLess(FracInt(0), percentage)
            THEN Append(pr.partial_matches, extracted) ELSE pr.partial_matches]

\* ObjectComparer.track_performance: the new performance_results
track_performance(pr, expected, extracted) ==
    LET percentage == compare_objects(expected, extracted)
    IN [total_iterations |-> pr.total_iterations + 1,
        match_percentages |-> Append(pr.match_percentages, percentage),
        exact_matches |->
            IF FracEq(percentage, FracInt(100))
            THEN pr.exact_matches + 1 ELSE pr.exact_matches,
        partial_matches |->
            IF FracLess(FracInt(0), percentage) /\ FracLess(percentage, FracInt(100))
            THEN Append(pr.partial_matches, extracted) ELSE pr.partial_matches]

\* get_performance_summary leaving the exact match rate a fraction of 1
get_performance_summary_rate_of_one(pr) ==
    [total_iterations |-> pr.total_iterations,
     exact_match_rate |->
        IF pr.total_iterations > 0
        THEN Frac(pr.exact_matches, pr.total_iterations)
        ELSE FracInt(0),
     average_match_percentage |->
        IF pr.match_percentages # <<>>
        THEN FracMul(FracSum(pr.match_percentages),
                     Frac(1, Len(pr.match_percentages)))
        ELSE FracInt(0)]

\* ObjectComparer.get_performance_summary
get_performance_summary(pr) ==
    [total_iterations |-> pr.total_iterations,
     exact_match_rate |->
        IF pr.total_iterations > 0
        THEN FracMul(Frac(pr.exact_matches, pr.total_iterations), FracInt(100))
        ELSE FracInt(0),
     average_match_percentage |->
        IF pr.match_percentages # <<>>
        THEN FracMul(FracSum(pr.match_percentages),
                     Frac(1, Len(pr.match_percentages)))
        ELSE FracInt(0)]

\* performance_summary before get_performance_summary has run
NoSummary ==
    [total_iterations |-> -1,
     exact_match_rate |-> FracInt(0),
     average_match_percentage |-> FracInt(0)]

----------------------------------------------------------------------------
(* The external collaborators: uploaded files and the vision model *)

\* an attribute that is None, or holds the string v
None == [some |-> FALSE, v |-> ""]
Some(v) == [some |-> TRUE, v |-> v]

\* the images a user can upload (after rotation)
Images == {"imgA", "imgB"}

\* uploaded files: name is uploaded_image.name split at its dots
NoFile == [given |-> FALSE, name |-> <<"">>, image |-> "imgA"]
UploadedFiles ==
    {[given |-> TRUE, name |-> <<"licence", "png">>, image |-> "imgA"],
     [given |-> TRUE, name |-> <<"scan", "v2", "jpeg">>, image |-> "imgB"],
     [given |-> TRUE, name |-> <<"passport", "PNG">>, image |-> "imgB"]}

\* base64.b64encode(<PNG bytes of the image>).decode('utf-8')
b64png(image) == IF image = "imgA" THEN "b64(png(imgA))" ELSE "b64(png(imgB))"

\* the doc_type argument: False, or a list of labels
DocTypeFalse == [t |-> "bool", items |-> <<>>]
DocTypeList(items) == [t |-> "list", items |-> items]
\* Python truthiness of doc_type
Truthy(dt) == dt.t = "list" /\ dt.items # <<>>
\* the list main() passes
MainDocTypes == DocTypeList(<<s_passport, s_driver_licence>>)

\* A model reply: quote is the quote character of its string literals, apos
\* says a string value holds an apostrophe, wf says it is a well-formed
\* literal, val is the value it denotes.
Text(quote, apos, wf, val) == [quote |-> quote, apos |-> apos, wf |-> wf, val |-> val]
NoText == Text("double", FALSE, FALSE, PyNone)

d_exact == [k \in {"LN", "FN"} |-> IF k = "LN" THEN PyStr(s_BENJAMIN) ELSE PyStr(s_FRANKLIN)]
d_partial == [k \in {"LN", "FN"} |-> IF k = "LN" THEN PyStr(s_benjamin) ELSE PyStr(s_WRONG)]
d_wrong == [k \in {"LN"} |-> PyStr(s_WRONG)]
d_doc(s) == [k \in {"document_type"} |-> PyStr(s)]
d_doc_int == [k \in {"document_type"} |-> PyInt(1)]

\* replies to the extraction prompt of an evaluation run
RunReplies ==
    {Text("double", FALSE, FALSE, PyNone),               \* not a literal at all
     Text("double", TRUE, TRUE, PyDict(d_exact)),        \* apostrophe in a value
     Text("single", FALSE, TRUE, PyDict(d_exact)),
     Text("double", FALSE, TRUE, PyDict(d_partial)),
     Text("single", FALSE, TRUE, PyDict(d_wrong)),
     Text("double", FALSE, TRUE, PyList)}

\* replies to the prompts of the single-document page
ProcReplies ==
    {Text("double", FALSE, FALSE, PyNone),
     Text("single", FALSE, TRUE, PyDict(d_wrong)),
     Text("single", FALSE, TRUE, PyDict(d_doc(s_passport))),
     Text("single", FALSE, TRUE, PyDict(d_doc(s_passport_or_driver_licence))),
     Text("single", FALSE, TRUE, PyDict(d_doc(s_id_card))),
     Text("double", FALSE, TRUE, PyDict(d_doc_int))}

\* replies to the extraction prompt in a sequence of runs
RunsReplies ==
    {Text("single", FALSE, TRUE, PyDict(d_exact)),
     Text("double", FALSE, TRUE, PyDict(d_partial))}

\* exceptions ChatCompletion.create can raise
ModelErrors == {"timeout", "rate_limit"}

\* what one ChatCompletion.create call produces
ModelOutcomes(replies) ==
    {[kind |-> "error", err |-> e, text |-> NoText] : e \in ModelErrors}
    \cup {[kind |-> "text", err |-> "", text |-> r] : r \in replies}

----------------------------------------------------------------------------
(* KYCDocumentProcessor (src/main.py) *)

max_attempts == 5

valid_extensions == {"png", "jpg", "jpeg", "gif", "bmp", "tiff", "ppm"}

\* KYCDocumentProcessor.__init__
NewProcessor(response_pattern, system_prompt) ==
    [model |-> "accounts/fireworks/models/phi-3-vision-128k-instruct",
     response_pattern |-> response_pattern,
     system_prompt |-> system_prompt,
     image_base64 |-> None,
     ext |-> None]

NoException == [type |-> "none", attempts |-> 0, cause |-> ""]
ValueError(msg) == [type |-> "ValueError", attempts |-> 0, cause |-> msg]
\* RuntimeError(f"Failed to process document after {max_attempts} attempts: {str(e)}")
RuntimeError(attempts, cause) == [type |-> "RuntimeError", attempts |-> attempts, cause |-> cause]

\* content.replace("'", '"'): every quote becomes a double quote, an apostrophe
\* inside a value too, which then ends the string literal early
replace_quotes(text) ==
    [text EXCEPT !.quote = "double",
                 !.apos = FALSE,
                 !.wf = text.wf /\ ~text.apos]

\* json.loads succeeds on a well-formed literal with double-quoted strings
json_loads_ok(text) == text.wf /\ text.quote = "double"

\* prepare_image storing whatever extension the upload has
prepare_image_no_ext_check(self, uploaded_image, rotated_image) ==
    IF ~(uploaded_image.given \/ self.image_base64.some)
    THEN [self |-> self, exc |-> ValueError("a streamlit uploaded image must be provided")]
    ELSE IF uploaded_image.given
    THEN LET encoded == [self EXCEPT !.image_base64 = Some(b64png(rotated_image))]
             ext == uploaded_image.name[Len(uploaded_image.name)]
         IN [self |-> [encoded EXCEPT !.ext = Some(ext)], exc |-> NoException]
    ELSE [self |-> self, exc |-> NoException]

\* prepare_image going on to the model without any image
prepare_image_no_image_check(self, uploaded_image, rotated_image) ==
    IF uploaded_image.given
    THEN LET encoded == [self EXCEPT !.image_base64 = Some(b64png(rotated_image))]
             ext == uploaded_image.name[Len(uploaded_image.name)]
         IN IF ext \notin valid_extensions
            THEN [self |-> encoded, exc |-> ValueError("Invalid image file extension")]
            ELSE [self |-> [encoded EXCEPT !.ext = Some(ext)], exc |-> NoException]
    ELSE [self |-> self, exc |-> NoException]

\* process_document up to the retry loop: the processor afterwards and the
\* ValueError raised, if any
prepare_image(self, uploaded_image, rotated_image) ==
    IF ~(uploaded_image.given \/ self.image_base64.some)
    THEN [self |-> self, exc |-> ValueError("a streamlit uploaded image must be provided")]
    ELSE IF uploaded_image.given
    THEN LET encoded == [self EXCEPT !.image_base64 = Some(b64png(rotated_image))]
             ext == uploaded_image.name[Len(uploaded_image.name)]
         IN IF ext \notin valid_extensions
            THEN [self |-> encoded, exc |-> ValueError("Invalid image file extension")]
            ELSE [self |-> [encoded EXCEPT !.ext = Some(ext)], exc |-> NoException]
    ELSE [self |-> self, exc |-> NoException]

\* any(i in response["document_type"] for i in doc_type), document_type a str
any_label_in(dt, value) ==
    \E k \in DOMAIN dt.items : StrContains(dt.items[k], value)

\* try_body without the elif branch: an accepted document_type is not returned
try_body_no_elif(dt, outcome) ==
    IF outcome.kind = "error"
    THEN [kind |-> "except", value |-> PyNone, err |-> outcome.err]
    ELSE LET content == replace_quotes(outcome.text)
         IN IF ~json_loads_ok(content)
            THEN [kind |-> "except", value |-> PyNone, err |-> "JSONDecodeError"]
            ELSE IF ~Truthy(dt)
            THEN [kind |-> "return", value |-> content.val, err |-> ""]
            ELSE [kind |-> "next", value |-> PyNone, err |-> ""]

\* the body of the try block for one model outcome: it returns a value,
\* raises into the except clause, or falls through to the next iteration
try_body(dt, outcome) ==
    IF outcome.kind = "error"
    THEN [kind |-> "except", value |-> PyNone, err |-> outcome.err]
    ELSE LET content == replace_quotes(outcome.text)
             response == content.val
         IN IF ~json_loads_ok(content)
            THEN [kind |-> "except", value |-> PyNone, err |-> "JSONDecodeError"]
            ELSE IF ~Truthy(dt)
            THEN [kind |-> "return", value |-> response, err |-> ""]
            ELSE IF response.t # "dict"
            THEN [kind |-> "except", value |-> PyNone, err |-> "TypeError"]
            ELSE IF "document_type" \notin DOMAIN response.d
            THEN [kind |-> "except", value |-> PyNone, err |-> "KeyError"]
            ELSE IF response.d["document_type"].t \in {"int", "none"}
            THEN [kind |-> "except", value |-> PyNone, err |-> "TypeError"]
            ELSE IF /\ response.d["document_type"].t = "str"
                    /\ any_label_in(dt, response.d["document_type"].s)
            THEN [kind |-> "return", value |-> response, err |-> ""]
            ELSE [kind |-> "next", value |-> PyNone, err |-> ""]

\* loop_iteration raising one attempt early (attempt == max_attempts - 2)
loop_iteration_early_raise(att, dt, outcome) ==
    LET r == try_body(dt, outcome)
    IN CASE r.kind = "return" ->
              [pc |-> "returned", attempt |-> att, result |-> r.value, exception |-> NoException]
         [] r.kind = "except" ->
              IF att = max_attempts - 2
              THEN [pc |-> "raised", attempt |-> att, result |-> PyNone,
                    exception |-> RuntimeError(max_attempts, r.err)]
              ELSE [pc |-> "attempt", attempt |-> att + 1, result |-> PyNone,
                    exception |-> NoException]
         [] r.kind = "next" ->
              IF att + 1 < max_attempts
              THEN [pc |-> "attempt", attempt |-> att + 1, result |-> PyNone,
                    exception |-> NoException]
              ELSE [pc |-> "returned", attempt |-> att, result |-> PyNone,
                    exception |-> NoException]

\* one iteration of `for attempt in range(max_attempts)`: where the call
\* stands afterwards
loop_iteration(att, dt, outcome) ==
    LET r == try_body(dt, outcome)
    IN CASE r.kind = "return" ->
              [pc |-> "returned", attempt |-> att, result |-> r.value, exception |-> NoException]
         [] r.kind = "except" ->
              IF att = max_attempts - 1
              THEN [pc |-> "raised", attempt |-> att, result |-> PyNone,
                    exception |-> RuntimeError(max_attempts, r.err)]
              ELSE [pc |-> "attempt", attempt |-> att + 1, result |-> PyNone,
                    exception |-> NoException]
         [] r.kind = "next" ->
              IF att + 1 < max_attempts
              THEN [pc |-> "attempt", attempt |-> att + 1, result |-> PyNone,
                    exception |-> NoException]
              ELSE [pc |-> "returned", attempt |-> att, result |-> PyNone,
                    exception |-> NoException]

\* a PIL image: what it shows and how far it is turned (degrees, counter-clockwise)
Picture(shows, turned) == [shows |-> shows, turned |-> turned]

\* no image: rotate_image has not returned
NoPicture == Picture("", 0)

\* Image.rotate(angle): a copy turned counter-clockwise by the angle
rotate(image, angle) == Picture(image.shows, (image.turned + angle) % 360)

valid_rotations == {0, 90, 180, 270, 360}

\* rotate_image turning the image whatever the angle
rotate_image_no_guard(image, rotation) ==
    [image |-> rotate(image, rotation), warning |-> FALSE]

\* rotate_image: the image returned, and whether st.warning was displayed
rotate_image(image, rotation) ==
    IF rotation \notin valid_rotations
    THEN [image |-> image, warning |-> TRUE]
    ELSE [image |-> rotate(image, rotation), warning |-> FALSE]

\* update_prompts setting the processor up as __init__ does, extension included
update_prompts_reset_ext(self, response_pattern, system_prompt) ==
    [self EXCEPT !.response_pattern = response_pattern,
                 !.system_prompt = system_prompt,
                 !.ext = None]

\* KYCDocumentProcessor.update_prompts
update_prompts(self, response_pattern, system_prompt) ==
    [self EXCEPT !.response_pattern = response_pattern,
                 !.system_prompt = system_prompt]

\* the size limit of both pages: 5 MB
max_size == 5 * 1024 * 1024

\* the image_url of a request: f"data:image/{self.ext};base64,{self.image_base64}"
data_url(self) == [sent |-> TRUE, ext |-> self.ext, image_base64 |-> self.image_base64]

\* no request has been sent
NoUrl == [sent |-> FALSE, ext |-> None, image_base64 |-> None]

----------------------------------------------------------------------------
(* Actions *)

\* process_document is entered: lines 68-96
Enter(self, file, turned, dt) ==
    LET p == prepare_image(self, file, turned)
    IN /\ processor' = p.self
       /\ doc_type' = dt
       /\ attempt' = 0
       /\ model_calls' = 0
       /\ outcomes' = <<>>
       /\ result' = PyNone
       /\ exception' = p.exc
       /\ upload' = file
       /\ image_url' = NoUrl
       /\ pc' = IF p.exc.type = "none" THEN "attempt" ELSE "raised"

\* a caller calls process_document on the processor it holds
ProcessDocument(file, dt) ==
    /\ pc = "idle"
    /\ Enter(processor, file, file.image, dt)
    /\ UNCHANGED <<trackVars, runVars, cmpVars, earlier_iterations, rotVars, pageVars>>

\* one iteration of the retry loop: one model call and what follows it
Attempt(outcome) ==
    /\ pc = "attempt"
    /\ LET n == loop_iteration(attempt, doc_type, outcome)
       IN /\ pc' = n.pc
          /\ attempt' = n.attempt
          /\ result' = n.result
          /\ exception' = n.exception
    /\ model_calls' = model_calls + 1
    /\ image_url' = data_url(processor)
    /\ outcomes' = Append(outcomes, outcome)
    /\ UNCHANGED <<processor, doc_type, upload, trackVars, runVars, cmpVars,
                   earlier_iterations, rotVars, pageVars>>

\* the caller takes the value or the exception and carries on
CallEnds ==
    /\ pc \in {"returned", "raised"}
    /\ rpc = "idle"
    /\ pc' = "idle"
    /\ UNCHANGED <<processor, attempt, doc_type, model_calls, outcomes,
                   result, exception, upload, image_url, trackVars,
                   runVars, cmpVars, earlier_iterations, rotVars, pageVars>>

\* a stand-alone track_performance call
TrackPerformance(extracted) ==
    /\ performance_results.total_iterations < MaxTrack
    /\ performance_results' =
           track_performance(performance_results, expected_output, extracted)
    /\ tracked' = Append(tracked, extracted)
    /\ UNCHANGED <<expected_output, procVars, runVars, cmpVars,
                   earlier_iterations, rotVars, pageVars>>

\* a stand-alone compare_objects call on the drawn inputs
CompareObjects ==
    /\ ~match_percentage.done
    /\ match_percentage' =
           [done |-> TRUE, value |-> compare_objects(expected_output, extracted_output)]
    /\ UNCHANGED <<extracted_output, procVars, trackVars, runVars,
                   earlier_iterations, rotVars, pageVars>>

\* RunStart going on with the ObjectComparer state of the run before
RunStart_shared_tracker(expected, file, iterations) ==
    /\ rpc = "idle"
    /\ pc = "idle"
    /\ expected_output' = expected
    /\ tracked' = <<>>
    /\ evaluation_iterations' = iterations
    /\ uploaded_file' = file
    /\ i' = 0
    /\ rpc' = IF iterations > 0 THEN "loop" ELSE "summary"
    /\ UNCHANGED <<performance_results, extractions, performance_summary,
                   procVars, cmpVars, earlier_iterations, rotVars, pageVars>>

\* run_extraction_performance_test is entered: line 134 and the loop's entry
EnterRun(expected, file, iterations) ==
    /\ expected_output' = expected
    /\ performance_results' = NewPerformanceResults
    /\ tracked' = <<>>
    /\ evaluation_iterations' = iterations
    /\ uploaded_file' = file
    /\ i' = 0
    /\ rpc' = IF iterations > 0 THEN "loop" ELSE "summary"

\* a caller calls run_extraction_performance_test
RunStart(expected, file, iterations) ==
    /\ rpc = "idle"
    /\ pc = "idle"
    /\ EnterRun(expected, file, iterations)
    /\ UNCHANGED <<extractions, performance_summary, procVars, cmpVars,
                   earlier_iterations, rotVars, pageVars>>

\* simulate_extraction: a new processor, and process_document entered on it
SimulateExtraction ==
    /\ rpc = "loop"
    /\ pc = "idle"
    /\ Enter(NewProcessor("passport_pattern", "passport_prompt"),
             uploaded_file, uploaded_file.image, DocTypeFalse)
    /\ extractions' = extractions + 1
    /\ rpc' = "extracting"
    /\ UNCHANGED <<evaluation_iterations, uploaded_file, i,
                   performance_summary, trackVars, cmpVars,
                   earlier_iterations, rotVars, pageVars>>

\* TrackExtracted with the loop running one iteration too many
TrackExtracted_extra_iteration ==
    /\ rpc = "extracting"
    /\ pc = "returned"
    /\ performance_results' =
           track_performance(performance_results, expected_output, result)
    /\ tracked' = Append(tracked, result)
    /\ pc' = "idle"
    /\ IF i + 1 <= evaluation_iterations
       THEN i' = i + 1 /\ rpc' = "loop"
       ELSE i' = i /\ rpc' = "summary"
    /\ UNCHANGED <<processor, attempt, doc_type, model_calls, outcomes,
                   result, exception, upload, image_url,
                   expected_output, evaluation_iterations, uploaded_file,
                   extractions, performance_summary, cmpVars,
                   earlier_iterations, rotVars, pageVars>>

\* line 142 with the value simulate_extraction returned, then the loop's step
TrackExtracted ==
    /\ rpc = "extracting"
    /\ pc = "returned"
    /\ performance_results' =
           track_performance(performance_results, expected_output, result)
    /\ tracked' = Append(tracked, result)
    /\ pc' = "idle"
    /\ IF i + 1 < evaluation_iterations
       THEN i' = i + 1 /\ rpc' = "loop"
       ELSE i' = i /\ rpc' = "summary"
    /\ UNCHANGED <<processor, attempt, doc_type, model_calls, outcomes,
                   result, exception, upload, image_url,
                   expected_output, evaluation_iterations, uploaded_file,
                   extractions, performance_summary, cmpVars,
                   earlier_iterations, rotVars, pageVars>>

\* Abort with the exception caught in the loop and the run going on to its summary
Abort_swallowed ==
    /\ rpc = "extracting"
    /\ pc = "raised"
    /\ rpc' = "summary"
    /\ pc' = "idle"
    /\ UNCHANGED <<processor, attempt, doc_type, model_calls, outcomes,
                   result, exception, upload, image_url, trackVars,
                   evaluation_iterations, uploaded_file, i, extractions,
                   performance_summary, cmpVars, earlier_iterations,
                   rotVars, pageVars>>

\* Abort with the failed iteration skipped and the loop going on
Abort_resumed ==
    /\ rpc = "extracting"
    /\ pc = "raised"
    /\ pc' = "idle"
    /\ IF i + 1 < evaluation_iterations
       THEN i' = i + 1 /\ rpc' = "loop"
       ELSE i' = i /\ rpc' = "summary"
    /\ UNCHANGED <<processor, attempt, doc_type, model_calls, outcomes,
                   result, exception, upload, image_url, trackVars,
                   evaluation_iterations, uploaded_file, extractions,
                   performance_summary, cmpVars, earlier_iterations,
                   rotVars, pageVars>>

\* the exception of process_document leaves run_extraction_performance_test
Abort ==
    /\ rpc = "extracting"
    /\ pc = "raised"
    /\ rpc' = "aborted"
    /\ pc' = "idle"
    /\ UNCHANGED <<processor, attempt, doc_type, model_calls, outcomes,
                   result, exception, upload, image_url, trackVars,
                   evaluation_iterations, uploaded_file, i, extractions,
                   performance_summary, cmpVars, earlier_iterations,
                   rotVars, pageVars>>

\* lines 145-146
Summarize ==
    /\ rpc = "summary"
    /\ performance_summary' = get_performance_summary(performance_results)
    /\ rpc' = "completed"
    /\ UNCHANGED <<evaluation_iterations, uploaded_file, i, extractions,
                   procVars, trackVars, cmpVars, earlier_iterations,
                   rotVars, pageVars>>

\* run_extraction_performance_test is over, by its return or by the exception:
\* its locals are gone, and the script can be run again
RunEnds ==
    /\ rpc \in {"completed", "aborted"}
    /\ earlier_iterations + Len(tracked) <= MaxEarlier
    /\ earlier_iterations' = earlier_iterations + Len(tracked)
    /\ tracked' = <<>>
    /\ rpc' = "idle"
    /\ evaluation_iterations' = 0
    /\ uploaded_file' = NoFile
    /\ i' = 0
    /\ extractions' = 0
    /\ performance_summary' = NoSummary
    /\ pc' = "idle"
    /\ attempt' = 0
    /\ doc_type' = DocTypeFalse
    /\ model_calls' = 0
    /\ outcomes' = <<>>
    /\ result' = PyNone
    /\ exception' = NoException
    /\ upload' = NoFile
    /\ image_url' = NoUrl
    /\ UNCHANGED <<processor, expected_output, performance_results, cmpVars,
                   rotVars, pageVars>>

\* get_performance_summary clearing the tracked percentages once it has read them
GetPerformanceSummary_consuming ==
    /\ performance_summary' = get_performance_summary(performance_results)
    /\ performance_results' = [performance_results EXCEPT !.match_percentages = <<>>]
    /\ UNCHANGED <<expected_output, tracked, rpc, evaluation_iterations,
                   uploaded_file, i, extractions, procVars, cmpVars,
                   earlier_iterations, rotVars, pageVars>>

\* a stand-alone get_performance_summary call
GetPerformanceSummary ==
    /\ performance_summary' = get_performance_summary(performance_results)
    /\ UNCHANGED <<rpc, evaluation_iterations, uploaded_file, i, extractions,
                   procVars, trackVars, cmpVars, earlier_iterations,
                   rotVars, pageVars>>

\* a stand-alone rotate_image call on the drawn inputs
RotateImage ==
    /\ rot_result = NoPicture
    /\ rot_result' = rotate_image(rot_image, rot_angle).image
    /\ rot_warning' = rotate_image(rot_image, rot_angle).warning
    /\ UNCHANGED <<rot_image, rot_angle, procVars, trackVars, runVars, cmpVars,
                   earlier_iterations, pageVars>>

\* the image the page hands to process_document: the opened file, turned by
\* the slider's angle; its encoding keeps what it shows
PageImage(file, rotation) == rotate_image(Picture(file.image, 0), rotation).image.shows

\* the call state once the script run that made the call is over
CallOver ==
    /\ processor' = NewProcessor("classify_pattern", "classify_prompt")
    /\ pc' = "idle"
    /\ attempt' = 0
    /\ doc_type' = DocTypeFalse
    /\ model_calls' = 0
    /\ outcomes' = <<>>
    /\ result' = PyNone
    /\ exception' = NoException
    /\ upload' = NoFile
    /\ image_url' = NoUrl

\* one run of the single-document page: main(), lines 184-235
MainPage(file, file_size, rotation, button) ==
    /\ rpc = "idle"
    /\ pc = "idle"
    /\ size_error' = (file.given /\ file_size > max_size)
    /\ first_url' = NoUrl
    /\ IF file.given /\ button
       THEN /\ page' = "main_classify"
            /\ Enter(NewProcessor("classify_pattern", "classify_prompt"),
                     file, PageImage(file, rotation), MainDocTypes)
       ELSE /\ page' = "main"
            /\ UNCHANGED procVars
    /\ UNCHANGED <<trackVars, runVars, cmpVars, earlier_iterations, rotVars>>

\* lines 237-265 when the first call returned: the prompts of the document
\* type, then process_document without an upload; None is not subscriptable
MainClassified ==
    /\ page = "main_classify"
    /\ pc = "returned"
    /\ first_url' = image_url
    /\ IF result.t # "dict"
       THEN page' = "main" /\ CallOver
       ELSE /\ page' = "main_extract"
            /\ IF result.d["document_type"] = PyStr(s_passport)
               THEN Enter(update_prompts(processor, "passport_pattern", "passport_prompt"),
                          NoFile, NoFile.image, DocTypeFalse)
               ELSE Enter(update_prompts(processor, "licence_pattern", "licence_prompt"),
                          NoFile, NoFile.image, DocTypeFalse)
    /\ UNCHANGED <<size_error, trackVars, runVars, cmpVars, earlier_iterations,
                   rotVars>>

\* the second call returned: main() is over
MainExtracted ==
    /\ page = "main_extract"
    /\ pc = "returned"
    /\ page' = "main"
    /\ CallOver
    /\ UNCHANGED <<size_error, first_url, trackVars, runVars, cmpVars, earlier_iterations,
                   rotVars>>

\* an exception of process_document leaves main()
MainRaised ==
    /\ page \in {"main_classify", "main_extract"}
    /\ pc = "raised"
    /\ page' = "main"
    /\ CallOver
    /\ UNCHANGED <<size_error, first_url, trackVars, runVars, cmpVars, earlier_iterations,
                   rotVars>>

\* one run of the evaluation page script: lines 190-250
EvalPage(file, file_size, text, iterations, rotation, button) ==
    /\ rpc = "idle"
    /\ pc = "idle"
    /\ page' = "evaluation"
    /\ size_error' = (file.given /\ file_size > max_size)
    /\ first_url' = NoUrl
    /\ IF file.given /\ button /\ json_loads_ok(replace_quotes(text))
       THEN EnterRun(replace_quotes(text).val, file, iterations)
       ELSE UNCHANGED <<trackVars, rpc, evaluation_iterations, uploaded_file, i>>
    /\ UNCHANGED <<extractions, performance_summary, procVars, cmpVars,
                   earlier_iterations, rotVars>>

\* track_performance called with the value that was compared
TrackCompared ==
    /\ match_percentage.done
    /\ tracked = <<>>
    /\ TrackPerformance(extracted_output)

----------------------------------------------------------------------------
(* Inputs *)

\* every dict with keys among `keys` and values among `values`
Dicts(keys, values) == UNION {[S -> values] : S \in SUBSET keys}

\* expected outputs of an evaluation run
RunExpected == {PyDict(d_exact), PyDict(<<>>)}

\* extracted values handed to track_performance directly
TrackExtractedValues ==
    {PyDict(d_exact), PyDict(d_partial), PyDict(d_wrong), PyDict(<<>>),
     PyList, PyNone, PyStr(s_BENJAMIN)}

\* extracted values of the summary scenarios: exact, half right, not a mapping
SumExtractedValues == {PyDict(d_exact), PyDict(d_partial), PyList}

\* inputs of a stand-alone rotate_image call: the slider's angles and others
Pictures == {Picture(s, t) : s \in Images, t \in {0, 90, 180, 270}}
Rotations == {0, 90, 180, 270, 360} \cup {1, 45, 89, 91, 359, 361, 450}

\* inputs of the page scripts
FileSizes == {1024, max_size, max_size + 1}
ExpectedTexts ==
    {Text("single", FALSE, TRUE, PyDict(d_exact)),       \* str(DEFAULT_DICT)
     Text("single", TRUE, TRUE, PyDict(d_exact))}        \* edited, with an apostrophe
PagesReplies ==
    {Text("single", FALSE, TRUE, PyDict(d_doc(s_passport))),
     Text("single", FALSE, TRUE, PyDict(d_doc(s_driver_licence))),
     Text("single", FALSE, TRUE, PyDict(d_doc(s_id_card)))}

\* inputs of a stand-alone compare_objects call
CmpExpected ==
    {PyDict(d) : d \in Dicts({"LN", "FN"}, {PyStr(s_Doe), PyStr(s_John), PyInt(1)})}
CmpExtracted ==
    {PyDict(d) : d \in Dicts({"LN", "FN", "EXTRA"},
                             {PyStr(s_Doe), PyStr(s_DOE), PyStr(s_John),
                              PyStr(s_x), PyStr(s_1)})}
    \cup {PyList, PyNone}

\* the doc_type arguments of a process_document call
DocTypes == {DocTypeFalse, DocTypeList(<<>>), MainDocTypes}

----------------------------------------------------------------------------
(* Specifications *)

NotCompared == [done |-> FALSE, value |-> FracInt(0)]

InitProcessor ==
    /\ processor = NewProcessor("classify_pattern", "classify_prompt")
    /\ pc = "idle"
    /\ attempt = 0
    /\ doc_type = DocTypeFalse
    /\ model_calls = 0
    /\ outcomes = <<>>
    /\ result = PyNone
    /\ exception = NoException
    /\ upload = NoFile
    /\ image_url = NoUrl

InitRun ==
    /\ rpc = "idle"
    /\ evaluation_iterations = 0
    /\ uploaded_file = NoFile
    /\ i = 0
    /\ extractions = 0
    /\ performance_summary = NoSummary
    /\ earlier_iterations = 0

InitTracker ==
    /\ expected_output = PyDict(<<>>)
    /\ performance_results = NewPerformanceResults
    /\ tracked = <<>>

InitCompare ==
    /\ extracted_output = PyNone
    /\ match_percentage = NotCompared

\* Spec: one evaluation run of the evaluation page
InitRotate ==
    /\ rot_image = Picture("imgA", 0)
    /\ rot_angle = 0
    /\ rot_result = NoPicture
    /\ rot_warning = FALSE

InitPage ==
    /\ page = "none"
    /\ size_error = FALSE
    /\ first_url = NoUrl

Init == InitProcessor /\ InitRun /\ InitTracker /\ InitCompare /\ InitRotate /\ InitPage

Next ==
    \/ \E e \in RunExpected, f \in UploadedFiles, n \in -1..MaxIter : RunStart(e, f, n)
    \/ SimulateExtraction
    \/ \E o \in ModelOutcomes(RunReplies) : Attempt(o)
    \/ TrackExtracted
    \/ Abort
    \/ Summarize

Spec == Init /\ [][Next]_vars

\* SpecProc: process_document calls on one processor
NextProc ==
    \/ \E f \in UploadedFiles \cup {NoFile}, dt \in DocTypes : ProcessDocument(f, dt)
    \/ \E o \in ModelOutcomes(ProcReplies) : Attempt(o)
    \/ CallEnds

SpecProc == Init /\ [][NextProc]_vars

\* SpecTrack: track_performance calls on one ObjectComparer
InitTrack ==
    /\ InitProcessor /\ InitRun /\ InitCompare /\ InitRotate /\ InitPage
    /\ expected_output \in {PyDict(d_exact), PyDict(d_wrong), PyDict(<<>>)}
    /\ performance_results = NewPerformanceResults
    /\ tracked = <<>>

NextTrack == \E x \in TrackExtractedValues : TrackPerformance(x)

SpecTrack == InitTrack /\ [][NextTrack]_vars

\* SpecRuns: evaluation runs one after another
RunsOutcomes == {o \in ModelOutcomes(RunsReplies) : o.err # "rate_limit"}

NextRuns ==
    \/ \E e \in RunExpected, f \in UploadedFiles, n \in -1..MaxIter : RunStart(e, f, n)
    \/ SimulateExtraction
    \/ \E o \in RunsOutcomes : Attempt(o)
    \/ TrackExtracted
    \/ Abort
    \/ Summarize
    \/ RunEnds

SpecRuns == Init /\ [][NextRuns]_vars

\* SpecRot: rotate_image called once on each input
InitRot ==
    /\ InitProcessor /\ InitRun /\ InitTracker /\ InitCompare /\ InitPage
    /\ rot_image \in Pictures
    /\ rot_angle \in Rotations
    /\ rot_result = NoPicture
    /\ rot_warning = FALSE

NextRot == RotateImage

SpecRot == InitRot /\ [][NextRot]_vars

\* SpecPages: the single-document page and the evaluation page, run again
\* and again by the user
PagesOutcomes == {o \in ModelOutcomes(PagesReplies) : o.err # "rate_limit"}

NextPages ==
    \/ \E f \in UploadedFiles \cup {NoFile}, s \in FileSizes, r \in valid_rotations,
          b \in BOOLEAN : MainPage(f, s, r, b)
    \/ MainClassified
    \/ MainExtracted
    \/ MainRaised
    \/ \E f \in UploadedFiles \cup {NoFile}, s \in FileSizes, t \in ExpectedTexts,
          n \in 1..MaxIter, r \in valid_rotations, b \in BOOLEAN :
              EvalPage(f, s, t, n, r, b)
    \/ SimulateExtraction
    \/ \E o \in PagesOutcomes : Attempt(o)
    \/ TrackExtracted
    \/ Abort
    \/ Summarize
    \/ RunEnds

SpecPages == Init /\ [][NextPages]_vars

\* SpecSum: track_performance, get_performance_summary and compare_objects
\* calls on one ObjectComparer, in any order
InitSum ==
    /\ InitProcessor /\ InitRun /\ InitRotate /\ InitPage
    /\ expected_output \in RunExpected
    /\ performance_results = NewPerformanceResults
    /\ tracked = <<>>
    /\ extracted_output \in SumExtractedValues
    /\ match_percentage = NotCompared

NextSum ==
    \/ \E x \in SumExtractedValues : TrackPerformance(x)
    \/ GetPerformanceSummary
    \/ CompareObjects

SpecSum == InitSum /\ [][NextSum]_vars

\* SpecCmp: compare_objects applied to drawn inputs
InitCmp ==
    /\ InitProcessor /\ InitRun /\ InitRotate /\ InitPage
    /\ expected_output \in CmpExpected
    /\ performance_results = NewPerformanceResults
    /\ tracked = <<>>
    /\ extracted_output \in CmpExtracted
    /\ match_percentage = NotCompared

NextCmp == CompareObjects \/ TrackCompared

SpecCmp == InitCmp /\ [][NextCmp]_vars

----------------------------------------------------------------------------
(* Properties of process_document (SpecProc) *)

\* the reply of a model call parses after the quote replacement
Parses(o) == o.kind = "text" /\ o.text.wf /\ ~o.text.apos

\* the value a parsing reply denotes
Parsed(o) == o.text.val

\* the value has a document_type the retry loop lets through
Accepted(dt, v) ==
    /\ v.t = "dict"
    /\ "document_type" \in DOMAIN v.d
    /\ v.d["document_type"].t = "str"
    /\ \E k \in DOMAIN dt.items : StrContains(dt.items[k], v.d["document_type"].s)

\* the attempt is one process_document returns from
Satisfying(dt, o) == Parses(o) /\ (Truthy(dt) => Accepted(dt, Parsed(o)))

\* the call has ended, by a return or an exception
CallEnded == pc \in {"returned", "raised"}

\* C1: a process_document call none of whose 5 attempts is satisfying ends by
\* raising RuntimeError; it does not return normally.
C1_ExhaustionRaises ==
    (/\ CallEnded
     /\ model_calls = max_attempts
     /\ \A k \in DOMAIN outcomes : ~Satisfying(doc_type, outcomes[k]))
    => (pc = "raised" /\ exception.type = "RuntimeError")

\* C2: with expected document types supplied, the document_type of every
\* returned mapping is a member of the supplied list.
C2_ReturnedTypeInList ==
    (pc = "returned" /\ Truthy(doc_type) /\ result.t = "dict")
    => /\ "document_type" \in DOMAIN result.d
       /\ \E k \in DOMAIN doc_type.items :
              result.d["document_type"] = PyStr(doc_type.items[k])

\* C8: the first satisfying attempt j ends the call: it returns that attempt's
\* parsed value after exactly j model calls, with no exception and no model
\* call after it.
C8_FirstSatisfyingReturns ==
    \A j \in DOMAIN outcomes :
        Satisfying(doc_type, outcomes[j]) =>
            /\ j = Len(outcomes)
            /\ model_calls = j
            /\ pc \in {"returned", "idle"}
            /\ result = Parsed(outcomes[j])
            /\ exception = NoException

\* a call returned at its 3rd attempt, after a model error and a rejected reply
C8_Witness ==
    /\ pc = "returned"
    /\ model_calls = 3
    /\ Truthy(doc_type)
    /\ outcomes[1].kind = "error"
    /\ Parses(outcomes[2]) /\ ~Satisfying(doc_type, outcomes[2])
    /\ result = PyDict(d_doc(s_passport))

\* every outcome so far is an exception of the model call itself
AllModelErrors == outcomes # <<>> /\ \A k \in DOMAIN outcomes : outcomes[k].kind = "error"

\* C9: a call makes at most 5 model calls; when every model call errors, the
\* call goes on until the 5th and then raises RuntimeError carrying the
\* attempt count 5 and the 5th error.
C9_AtMostFiveThenFail ==
    /\ model_calls <= max_attempts
    /\ Len(outcomes) = model_calls
    /\ AllModelErrors =>
          \/ pc = "attempt" /\ model_calls < max_attempts
          \/ /\ pc \in {"raised", "idle"}
             /\ model_calls = max_attempts
             /\ exception = RuntimeError(5, outcomes[5].err)

\* five model errors, the last differing from the first, and the call raised
C9_Witness ==
    /\ pc = "raised"
    /\ model_calls = 5
    /\ AllModelErrors
    /\ outcomes[1].err = "timeout"
    /\ outcomes[5].err = "rate_limit"

----------------------------------------------------------------------------
(* Properties of an evaluation run (Spec) *)

\* C3: when process_document raises on iteration k of a run, the run ends by
\* that exception, no summary is computed, and total_iterations is k-1.
C3_AbortLeavesKMinus1 ==
    exception.type # "none" =>
        /\ rpc \in {"extracting", "aborted"}
        /\ rpc = "extracting" => pc = "raised"
        /\ performance_summary = NoSummary
        /\ extractions <= evaluation_iterations
        /\ performance_results.total_iterations = extractions - 1

\* a run of 2 iterations aborted on its 2nd by exhausted attempts
C3_Witness ==
    /\ rpc = "aborted"
    /\ exception.type = "RuntimeError"
    /\ evaluation_iterations = 2
    /\ extractions = 2
    /\ performance_results.total_iterations = 1

\* C6: a run of N iterations whose extractions all succeed extracts N times,
\* one at a time, tracks each returned value once and in order, and computes
\* the summary after the N-th track: its total_iterations is N.
C6_RunOfNIterations ==
    /\ rpc = "loop" =>
          /\ i < evaluation_iterations
          /\ extractions = i /\ Len(tracked) = i
    /\ rpc = "extracting" =>
          /\ i < evaluation_iterations
          /\ extractions = i + 1 /\ Len(tracked) = i
    /\ (rpc \in {"loop", "summary", "completed"} /\ tracked # <<>>) =>
          tracked[Len(tracked)] = result
    /\ performance_results.total_iterations = Len(tracked)
    /\ (rpc \in {"summary", "completed"} /\ evaluation_iterations >= 0) =>
          /\ extractions = evaluation_iterations
          /\ Len(tracked) = evaluation_iterations
    /\ rpc = "completed" <=> performance_summary # NoSummary
    /\ (rpc = "completed" /\ evaluation_iterations >= 0) =>
          performance_summary.total_iterations = evaluation_iterations

\* a completed run of 2 iterations with two different extracted values
C6_Witness ==
    /\ rpc = "completed"
    /\ evaluation_iterations = 2
    /\ extractions = 2
    /\ tracked = <<PyDict(d_exact), PyDict(d_partial)>>
    /\ performance_summary.total_iterations = 2

\* C7: a run called with evaluation_iterations < 1 is rejected: it makes no
\* extraction call and computes no summary.
C7_RejectsNonPositive ==
    (rpc # "idle" /\ evaluation_iterations < 1) =>
        /\ rpc = "aborted"
        /\ extractions = 0
        /\ performance_summary = NoSummary

----------------------------------------------------------------------------
(* Properties of the tracker (SpecTrack) *)

\* C4: after any sequence of track_performance calls,
\* len(match_percentages) == total_iterations and exact_matches <= total_iterations.
C4_TrackerInvariant ==
    /\ Len(performance_results.match_percentages) = performance_results.total_iterations
    /\ performance_results.exact_matches <= performance_results.total_iterations

\* three calls, one of them with a value that is no mapping, two of them exact
C4_Witness ==
    /\ performance_results.total_iterations = 3
    /\ performance_results.exact_matches = 2
    /\ \E k \in DOMAIN tracked : tracked[k].t # "dict"

\* the indices of the iterations whose percentage satisfies P
Scored100 ==
    {k \in DOMAIN performance_results.match_percentages :
        performance_results.match_percentages[k] = FracInt(100)}
IsPartial(p) == FracLess(FracInt(0), p) /\ FracLess(p, FracInt(100))

RECURSIVE PartialOf(_, _)
\* the tracked values whose percentage is strictly between 0 and 100, in order
PartialOf(values, percentages) ==
    IF values = <<>> THEN <<>>
    ELSE (IF IsPartial(Head(percentages)) THEN <<Head(values)>> ELSE <<>>)
         \o PartialOf(Tail(values), Tail(percentages))

\* one track_performance step, seen from outside
C5_Step ==
    LET pr == performance_results
        nx == performance_results'
        p == nx.match_percentages[Len(nx.match_percentages)]
        x == tracked'[Len(tracked')]
    IN /\ nx.total_iterations = pr.total_iterations + 1
       /\ nx.match_percentages = Append(pr.match_percentages, p)
       /\ tracked' = Append(tracked, x)
       /\ nx.exact_matches = pr.exact_matches + (IF p = FracInt(100) THEN 1 ELSE 0)
       /\ nx.partial_matches =
              IF IsPartial(p) THEN Append(pr.partial_matches, x) ELSE pr.partial_matches

\* C5: each track_performance call adds 1 to total_iterations and one
\* percentage, adds 1 to exact_matches iff the percentage is 100 and appends
\* the extracted value to partial_matches iff 0 < percentage < 100; so
\* exact_matches counts the percentages equal to 100 and partial_matches is
\* the extracted values of the iterations strictly between 0 and 100, in order.
C5_TrackStep ==
    /\ [][C5_Step]_vars
    /\ [](/\ performance_results.exact_matches = Cardinality(Scored100)
          /\ Len(tracked) = Len(performance_results.match_percentages)
          /\ performance_results.partial_matches =
                 PartialOf(tracked, performance_results.match_percentages))

\* an exact, a partial and a 0% iteration have been tracked
C5_Witness ==
    /\ performance_results.total_iterations = 3
    /\ performance_results.exact_matches = 1
    /\ performance_results.partial_matches = <<PyDict(d_partial)>>
    /\ \E k \in 1..3 : performance_results.match_percentages[k] = FracInt(0)

----------------------------------------------------------------------------
(* Properties of compare_objects (SpecCmp) *)

\* the keys of the expected mapping that the extracted mapping matches
MatchedKeys(expected, extracted) ==
    {k \in DOMAIN expected.d :
        /\ k \in DOMAIN extracted.d
        /\ upper(str(expected.d[k])) = upper(str(extracted.d[k]))}

d_LN(s) == [k \in {"LN"} |-> PyStr(s)]
d_LN_FN == [k \in {"LN", "FN"} |-> IF k = "LN" THEN PyStr(s_Doe) ELSE PyStr(s_John)]
d_LN_EXTRA == [k \in {"LN", "EXTRA"} |-> IF k = "LN" THEN PyStr(s_Doe) ELSE PyStr(s_x)]

\* C10: for a non-empty expected mapping E and a mapping A, compare_objects
\* returns 100 * m / |E|, m the number of keys of E that are in A with equal
\* upper-cased string forms; {LN:Doe} vs {LN:DOE} gives 100, {LN:Doe,FN:John}
\* vs {LN:Doe} gives 50, {LN:Doe} vs {LN:Doe,EXTRA:x} gives 100.
C10_CompareFormula ==
    (match_percentage.done /\ extracted_output.t = "dict" /\ DOMAIN expected_output.d # {}) =>
        LET m == Cardinality(MatchedKeys(expected_output, extracted_output))
            n == Cardinality(DOMAIN expected_output.d)
            v == match_percentage.value
        IN /\ v.num * n = 100 * m * v.den
           /\ (expected_output.d = d_LN(s_Doe) /\ extracted_output.d = d_LN(s_DOE))
                 => v = FracInt(100)
           /\ (expected_output.d = d_LN_FN /\ extracted_output.d = d_LN(s_Doe))
                 => v = FracInt(50)
           /\ (expected_output.d = d_LN(s_Doe) /\ extracted_output.d = d_LN_EXTRA)
                 => v = FracInt(100)

\* the comparison of {LN:Doe, FN:John} with {LN:DOE, EXTRA:x} has been made
C10_Witness ==
    /\ match_percentage.done
    /\ expected_output.d = d_LN_FN
    /\ extracted_output.d = [k \in {"LN", "EXTRA"} |-> IF k = "LN" THEN PyStr(s_DOE) ELSE PyStr(s_x)]
    /\ match_percentage.value = FracInt(50)

\* C11: compare_objects returns a number in [0, 100] for every expected mapping
\* and every extracted value; it returns 0 when the extracted value is not a
\* mapping and when the expected mapping is empty, and track_performance on a
\* value that is not a mapping records one iteration of 0%.
C11_CompareTotalBounded ==
    /\ match_percentage.done =>
          /\ ~FracLess(match_percentage.value, FracInt(0))
          /\ ~FracLess(FracInt(100), match_percentage.value)
          /\ extracted_output.t # "dict" => match_percentage.value = FracInt(0)
          /\ DOMAIN expected_output.d = {} => match_percentage.value = FracInt(0)
    /\ (tracked # <<>> /\ tracked[1].t # "dict") =>
          /\ performance_results.total_iterations = 1
          /\ performance_results.match_percentages = <<FracInt(0)>>
          /\ performance_results.exact_matches = 0
          /\ performance_results.partial_matches = <<>>

\* None was compared with a non-empty expected mapping and then tracked
C11_Witness ==
    /\ match_percentage.done
    /\ match_percentage.value = FracInt(0)
    /\ expected_output.d = d_LN_FN
    /\ extracted_output = PyNone
    /\ tracked = <<PyNone>>
    /\ performance_results.match_percentages = <<FracInt(0)>>

----------------------------------------------------------------------------
(* Properties of the summary (SpecSum) *)

\* the summary s states the claimed figures of the tracker state pr
SummaryOf(pr, s) ==
    /\ s.total_iterations = pr.total_iterations
    /\ IF pr.total_iterations > 0
       THEN s.exact_match_rate.num * pr.total_iterations
                = 100 * pr.exact_matches * s.exact_match_rate.den
       ELSE s.exact_match_rate = FracInt(0)
    /\ IF pr.match_percentages # <<>>
       THEN FracEq(FracMul(s.average_match_percentage, FracInt(Len(pr.match_percentages))),
                   FracSum(pr.match_percentages))
       ELSE s.average_match_percentage = FracInt(0)

\* a get_performance_summary call returns the figures of the state it read
C12_SummaryStep ==
    performance_summary' # performance_summary =>
        SummaryOf(performance_results, performance_summary')

\* exact on iterations 1 and 3, {LN:benjamin, FN:WRONG} on iterations 2, 4, 5
E2E_Tracked ==
    <<PyDict(d_exact), PyDict(d_partial), PyDict(d_exact), PyDict(d_partial),
      PyDict(d_partial)>>

C12_Scenario ==
    /\ (/\ expected_output = PyDict(d_exact)
        /\ tracked = E2E_Tracked
        /\ performance_summary.total_iterations = 5)
       => performance_summary = [total_iterations |-> 5,
                                 exact_match_rate |-> FracInt(40),
                                 average_match_percentage |-> FracInt(70)]
    /\ performance_summary.total_iterations = 0
       => /\ performance_summary.exact_match_rate = FracInt(0)
          /\ performance_summary.average_match_percentage = FracInt(0)

\* C12: get_performance_summary returns total_iterations, exact_match_rate =
\* 100 * exact_matches / total_iterations and average_match_percentage = the
\* mean of match_percentages, 0 for both when nothing was tracked; the run
\* exact, partial, exact, partial, partial against {LN:BENJAMIN, FN:FRANKLIN}
\* gives total_iterations 5, exact_match_rate 40, average_match_percentage 70.
C12_SummaryFormula == [][C12_SummaryStep]_vars /\ []C12_Scenario

\* the summary of the five-iteration scenario has been computed
C12_Witness ==
    /\ expected_output = PyDict(d_exact)
    /\ tracked = E2E_Tracked
    /\ performance_summary.total_iterations = 5
    /\ performance_summary.exact_match_rate = FracInt(40)
    /\ performance_summary.average_match_percentage = FracInt(70)

RECURSIVE Replay(_, _)
\* the tracker state that the track_performance calls alone produce
Replay(expected, calls) ==
    IF calls = <<>> THEN NewPerformanceResults
    ELSE track_performance(Replay(expected, SubSeq(calls, 1, Len(calls) - 1)),
                           expected, calls[Len(calls)])

\* a step that returns a summary or a comparison leaves the tracker state, and
\* a step that changes the tracker state is one track_performance call
C13_FrameStep ==
    /\ (performance_summary' # performance_summary \/ match_percentage' # match_percentage)
          => <<expected_output, performance_results>>' = <<expected_output, performance_results>>
    /\ <<expected_output, performance_results>>' # <<expected_output, performance_results>>
          => /\ Len(tracked') = Len(tracked) + 1
             /\ expected_output' = expected_output

\* what the calls returned is what they return when called again
C13_SameResults ==
    /\ performance_results = Replay(expected_output, tracked)
    /\ match_percentage.done
          => match_percentage.value = compare_objects(expected_output, extracted_output)
    /\ performance_summary.total_iterations = Len(tracked)
          => performance_summary = get_performance_summary(performance_results)

\* C13: only track_performance changes the tracker state (the four fields of
\* performance_results and expected_output); get_performance_summary and
\* compare_objects leave it unchanged, so calls repeated between track calls
\* return the same results and later summaries are those of the track calls.
C13_OnlyTrackMutates == [][C13_FrameStep]_vars /\ []C13_SameResults

\* a summary and a comparison were taken after the first of two track calls
C13_Witness ==
    /\ Len(tracked) = 2
    /\ performance_summary.total_iterations = 1
    /\ match_percentage.done
    /\ performance_results.total_iterations = 2

----------------------------------------------------------------------------
(* Properties of the image handling of process_document (SpecProc) *)

\* the extension of an uploaded file: the part of its name after the last dot
ExtensionOf(file) == file.name[Len(file.name)]

\* the seven accepted extensions
AcceptedExtensions == {"png", "jpg", "jpeg", "gif", "bmp", "tiff", "ppm"}

\* C14: a process_document call given an upload whose extension is not one of
\* png, jpg, jpeg, gif, bmp, tiff, ppm raises ValueError before any model
\* call, and never enters the retry loop.
C14_InvalidExtensionRaises ==
    (upload.given /\ ExtensionOf(upload) \notin AcceptedExtensions) =>
        /\ pc \in {"raised", "idle"}
        /\ exception.type = "ValueError"
        /\ model_calls = 0
        /\ outcomes = <<>>
        /\ ~image_url.sent

\* the call given passport.PNG has raised
C14_Witness ==
    /\ pc = "raised"
    /\ upload.given
    /\ upload.name = <<"passport", "PNG">>
    /\ exception.type = "ValueError"
    /\ model_calls = 0

\* a call without an upload, on a processor without a stored image
NoImageAtAll == ~upload.given /\ ~processor.image_base64.some

\* the step that enters such a call leaves the processor as it was
C17_EntryStep ==
    (pc = "idle" /\ pc' # "idle" /\ ~upload'.given /\ ~processor.image_base64.some)
        => processor' = processor

\* such a call raises ValueError without a model call
C17_Raised ==
    (pc # "idle" /\ NoImageAtAll) =>
        /\ pc = "raised"
        /\ exception = ValueError("a streamlit uploaded image must be provided")
        /\ model_calls = 0
        /\ ~image_url.sent

\* C17: process_document called with no uploaded image on a processor that
\* holds no encoded image raises ValueError, makes no model call and leaves
\* the processor's state unchanged.
C17_NoImageRaises == [][C17_EntryStep]_vars /\ []C17_Raised

\* a call without an upload has raised on a processor that holds no image
C17_Witness ==
    /\ pc = "raised"
    /\ NoImageAtAll
    /\ exception.type = "ValueError"
    /\ model_calls = 0

\* C19: a stored image implies a stored extension that is one of the seven
\* accepted values and comes from the same upload as the image.
C19_StoredImageHasItsExtension ==
    processor.image_base64.some =>
        /\ processor.ext.some
        /\ processor.ext.v \in AcceptedExtensions
        /\ \E f \in UploadedFiles :
              /\ processor.image_base64 = Some(b64png(f.image))
              /\ processor.ext = Some(ExtensionOf(f))

----------------------------------------------------------------------------
(* Properties of the life cycle of an evaluation run (Spec) *)

\* the state of the run in the terms of the life cycle
RunState ==
    CASE rpc = "idle" -> "Idle"
      [] rpc \in {"loop", "extracting", "summary"} -> "Running"
      [] rpc = "completed" -> "Completed"
      [] rpc = "aborted" -> "Aborted"

\* one step of a run of N >= 1 iterations
C15_RunStep ==
    /\ RunState = "Idle" => RunState' \in {"Idle", "Running"}
    /\ RunState = "Running" => RunState' \in {"Running", "Completed", "Aborted"}
    /\ RunState = "Completed" => RunState' = "Completed"
    \* iteration k+1 is entered after iterations 1..k were tracked, and k+1 <= N
    /\ extractions' \in {extractions, extractions + 1}
    /\ extractions' = extractions + 1 =>
          /\ rpc' = "extracting"
          /\ Len(tracked) = extractions
          /\ extractions' <= evaluation_iterations
    /\ (rpc # "idle" /\ tracked' # tracked) =>
          /\ rpc = "extracting"
          /\ pc = "returned"
          /\ Len(tracked') = extractions
    \* Completed is entered after iteration N was tracked
    /\ (RunState' = "Completed" /\ RunState # "Completed" /\ evaluation_iterations >= 1) =>
          /\ extractions = evaluation_iterations
          /\ Len(tracked) = evaluation_iterations
          /\ exception = NoException
    \* a failed extraction ends the run
    /\ (rpc = "extracting" /\ pc = "raised" /\ vars' # vars) =>
          /\ rpc' = "aborted"
          /\ tracked' = tracked
    \* Aborted is terminal
    /\ RunState = "Aborted" =>
          /\ RunState' = "Aborted"
          /\ UNCHANGED <<pc, extractions, model_calls, trackVars, performance_summary>>

\* where a run stands when it has ended
C15_Ended ==
    /\ (rpc = "completed" /\ evaluation_iterations >= 1) =>
          /\ extractions = evaluation_iterations
          /\ Len(tracked) = evaluation_iterations
    /\ rpc = "aborted" =>
          /\ exception.type # "none"
          /\ pc = "idle"
          /\ Len(tracked) = extractions - 1
          /\ performance_summary = NoSummary

\* C15: a run goes Idle -> Running(i = 1..N) -> Completed or Aborted; the
\* iterations are entered in order, Completed is reached only after iteration
\* N was extracted and tracked, and once an extraction has failed the run is
\* Aborted for good: no further extraction, nothing tracked, never Completed.
C15_RunLifecycle == [][C15_RunStep]_vars /\ []C15_Ended

\* a run of 2 iterations was aborted by its second extraction
C15_Witness ==
    /\ rpc = "aborted"
    /\ evaluation_iterations = 2
    /\ extractions = 2
    /\ Len(tracked) = 1
    /\ exception.type = "RuntimeError"

----------------------------------------------------------------------------
(* Properties of a sequence of evaluation runs (SpecRuns) *)

\* a run starts with all counters 0 and both sequences empty
C16_StartStep ==
    (rpc = "idle" /\ rpc' # "idle") =>
        /\ performance_results' = NewPerformanceResults
        /\ tracked' = <<>>

\* the tracker state and the summary of a run are those of its own extractions
C16_OwnIterations ==
    rpc # "idle" =>
        /\ performance_results = Replay(expected_output, tracked)
        /\ performance_results.total_iterations = Len(tracked)
        /\ rpc = "completed" =>
              /\ performance_summary = get_performance_summary(Replay(expected_output, tracked))
              /\ performance_summary.total_iterations = Len(tracked)

\* C16: every evaluation run starts from a fresh tracker state; whatever runs
\* came before, completed or aborted, the summary of a run is that of the
\* run's own extractions and counts no iteration of an earlier run.
C16_FreshPerRun == [][C16_StartStep]_vars /\ []C16_OwnIterations

\* a run of one iteration completed after earlier runs had tracked iterations
C16_Witness ==
    /\ earlier_iterations >= 1
    /\ rpc = "completed"
    /\ Len(tracked) = 1
    /\ performance_summary.total_iterations = 1

----------------------------------------------------------------------------
(* Properties of rotate_image (SpecRot) *)

\* C18: rotate_image with a rotation outside {0, 90, 180, 270, 360} warns and
\* returns the original image, not rotated; with a rotation inside the set it
\* returns the image turned by that angle.
C18_RotateOrReturnOriginal ==
    rot_result # NoPicture =>
        IF rot_angle \notin {0, 90, 180, 270, 360}
        THEN rot_result = rot_image /\ rot_warning
        ELSE /\ rot_result.shows = rot_image.shows
             /\ rot_result.turned = (rot_image.turned + rot_angle) % 360
             /\ ~rot_warning

\* rotate_image was called with 45 degrees on an image already turned by 90
C18_Witness ==
    /\ rot_angle = 45
    /\ rot_image = Picture("imgA", 90)
    /\ rot_result = Picture("imgA", 90)
    /\ rot_warning

----------------------------------------------------------------------------
(* Properties of the page scripts (SpecPages) *)

\* C20: once the size check of a page has reported that the uploaded file is
\* larger than 5 MB, no process_document call, and so no model call, is made
\* for that file, in the single-document page and in the evaluation page.
C20_OversizeNeverProcessed ==
    size_error => (pc = "idle" /\ rpc = "idle" /\ ~image_url.sent)

\* the steps of the two-step flow of the single-document page
C21_FlowStep ==
    \* update_prompts and the entry of the call without an upload
    /\ (page = "main_classify" /\ page' = "main_extract") =>
          /\ ~upload'.given
          /\ processor'.model = processor.model
          /\ processor'.image_base64 = processor.image_base64
          /\ processor'.ext = processor.ext
          /\ <<processor'.response_pattern, processor'.system_prompt>>
                \in {<<"passport_pattern", "passport_prompt">>,
                     <<"licence_pattern", "licence_prompt">>}
    \* a request of a call without an upload carries the cached image and extension
    /\ (model_calls' = model_calls + 1 /\ ~upload.given) =>
          /\ processor' = processor
          /\ image_url'.sent
          /\ image_url'.image_base64 = processor.image_base64
          /\ image_url'.ext = processor.ext
    \* the call without an upload leaves the processor as it is
    /\ (page = "main_extract" /\ page' = "main_extract") => processor' = processor

\* the second step holds and submits the image of the first step
C21_SameImage ==
    page = "main_extract" =>
        /\ first_url.sent
        /\ processor.image_base64.some
        /\ first_url.image_base64 = processor.image_base64
        /\ first_url.ext = processor.ext
        /\ image_url.sent => image_url = first_url

\* C21: process_document called without an upload leaves image_base64 and ext
\* unchanged and sends the cached image and extension; update_prompts changes
\* response_pattern and system_prompt only; so the extraction step of the
\* single-document page submits the same image as the classification step.
C21_TwoStepSameImage == [][C21_FlowStep]_vars /\ []C21_SameImage

\* the extraction step of a driver licence has sent its request
C21_Witness ==
    /\ page = "main_extract"
    /\ ~upload.given
    /\ processor.system_prompt = "licence_prompt"
    /\ image_url.sent
    /\ image_url = first_url
    /\ image_url.ext = Some("png")

----------------------------------------------------------------------------
(* The three buckets of the tracker (SpecTrack) *)

\* the number of recorded percentages equal to 0
ZeroIterations ==
    Cardinality({k \in DOMAIN performance_results.match_percentages :
                    FracEq(performance_results.match_percentages[k], FracInt(0))})

\* C22: after any sequence of track_performance calls every iteration is in
\* exactly one bucket: exact_matches + len(partial_matches) + the number of
\* percentages equal to 0 is total_iterations, and so exact_matches +
\* len(partial_matches) is at most total_iterations.
C22_ThreeBuckets ==
    /\ performance_results.exact_matches + Len(performance_results.partial_matches)
          + ZeroIterations = performance_results.total_iterations
    /\ performance_results.exact_matches + Len(performance_results.partial_matches)
          <= performance_results.total_iterations

\* one exact, one partial and one 0% iteration have been tracked
C22_Witness ==
    /\ performance_results.total_iterations = 3
    /\ performance_results.exact_matches = 1
    /\ Len(performance_results.partial_matches) = 1
    /\ ZeroIterations = 1

====
